---- MODULE Spec2Model ----
(***************************************************************************)
(* Parcel tracking: ParcelService over ParcelStore over one SQL table.     *)
(*                                                                         *)
(* The store's state is the table `parcel` (a set of rows) and the         *)
(* backend's generator of row identifiers.  Every ParcelStore method       *)
(* issues one SQL statement; a statement is atomic.  A statement is first  *)
(* resolved against the table's schema (Prepared) and is rejected by the   *)
(* backend when it names a table or a column the schema does not have.     *)
(* Any statement may also fail for reasons of the backend itself           *)
(* (the input `fail`).                                                     *)
(*                                                                         *)
(* Strings of the program that are compared with the empty string are      *)
(* TLA+ strings; created_at, a formatted time, is a sequence (<<>> is the  *)
(* empty string).  A *Parcel is a sequence of at most one Parcel (<<>> is  *)
(* nil).                                                                   *)
(***************************************************************************)
EXTENDS Integers, FiniteSets, Sequences, TLC

\* ---------------------------------------------------------------- bounds
MaxParcels == 2
MaxProcs == 2

\* ------------------------------------------------------------- constants
ParcelStatusRegistered == "registered"
ParcelStatusSent == "sent"
ParcelStatusDelivered == "delivered"

\* time.RFC3339 has a resolution of one second; time is counted in ticks.
TicksPerSecond == 2

Nil == "nil"
ErrNilPointer == "gotten pointer is equal to nil"
ErrDatabase == "database error"
ErrNoSuchColumn == "no such column"
ErrNoSuchTable == "no such table"

Clients == {1, 2}
Addresses == {"A", "B"}
Numbers == 0 .. MaxParcels
Procs == 1 .. MaxProcs
\* time.Now(), in ticks: two instants of one second.  The wall clock is an
\* input of Register.
Times == {0, 1}

\* The zero value Parcel{}.
ZeroParcel ==
    [number |-> 0, client |-> 0, status |-> "", address |-> "", created_at |-> <<>>]

\* time.Time.UTC().Format(time.RFC3339): the sub-second part is dropped.
FormatRFC3339(t) == <<t \div TicksPerSecond>>

\* ------------------------------------------------------------ the schema
\* The table the statements are run against.
Tables == {"parcel"}
Columns == {"number", "client", "status", "address", "created_at"}

\* The row identifier `id` of Get's statement is the table's primary key,
\* which is the column number.
ColumnName(c) == IF c = "id" THEN "number" ELSE c

\* The collection `percel` of GetByClient's statement is the table parcel.
TableName(t) == IF t = "percel" THEN "parcel" ELSE t

\* The backend's name resolution: the error of a statement that names a
\* table or a column the schema does not have, Nil when all names resolve.
Prepared(table, columns) ==
    IF TableName(table) \notin Tables THEN ErrNoSuchTable
    ELSE IF \E c \in columns : ColumnName(c) \notin Columns THEN ErrNoSuchColumn
    ELSE Nil

\* The value of column c in row r.
Col(r, c) == r[ColumnName(c)]

VARIABLES
    rows,           \* the rows of table parcel
    lastInsertId,   \* the last identifier the backend generated
    last,           \* the last completed Service call: arguments and results
    pc,             \* SpecConc: where each concurrent caller is in NextStatus
    local,          \* SpecConc: each caller's number and nextStatus
    effects         \* SpecConc: the statements that changed the table

vars == <<rows, lastInsertId, last, pc, local, effects>>

\* ------------------------------------------------------------ ParcelStore
\* Each method: the table after the statement, the error returned, and the
\* values returned.  db is the table before, fail the backend failing.

\* Mutant of Add: the generated identifier is not written to p.Number.
AddNoWriteBack(db, id, p, fail) ==
    IF p = <<>> \/ fail = "Exec"
    THEN [rows |-> db, err |-> IF p = <<>> THEN ErrNilPointer ELSE ErrDatabase,
          p |-> p, inserted |-> FALSE, issued |-> p # <<>>]
    ELSE [rows |-> db \cup {[p[1] EXCEPT !.number = id]},
          err |-> IF fail = "LastInsertId" THEN ErrDatabase ELSE Nil,
          p |-> p, inserted |-> TRUE, issued |-> TRUE]

\* Mutant of Add: the row is inserted with p.Number, not a generated identifier.
AddKeepsNumber(db, id, p, fail) ==
    IF p = <<>> \/ fail = "Exec"
    THEN [rows |-> db, err |-> IF p = <<>> THEN ErrNilPointer ELSE ErrDatabase,
          p |-> p, inserted |-> FALSE, issued |-> p # <<>>]
    ELSE [rows |-> db \cup {p[1]},
          err |-> IF fail = "LastInsertId" THEN ErrDatabase ELSE Nil,
          p |-> p, inserted |-> TRUE, issued |-> TRUE]

\* Mutant of Add: the nil check comes after the statement.
AddChecksNilLate(db, id, p, fail) ==
    IF fail = "Exec"
    THEN [rows |-> db, err |-> ErrDatabase, p |-> p, inserted |-> FALSE, issued |-> TRUE]
    ELSE IF p = <<>>
    THEN [rows |-> db \cup {[ZeroParcel EXCEPT !.number = id]}, err |-> ErrNilPointer,
          p |-> p, inserted |-> TRUE, issued |-> TRUE]
    ELSE [rows |-> db \cup {[p[1] EXCEPT !.number = id]},
          err |-> IF fail = "LastInsertId" THEN ErrDatabase ELSE Nil,
          p |-> IF fail = "LastInsertId" THEN p ELSE <<[p[1] EXCEPT !.number = id]>>,
          inserted |-> TRUE, issued |-> TRUE]

\* Mutant of Add: the INSERT binds the status registered, not p.Status.
AddInsertsRegistered(db, id, p, fail) ==
    IF p = <<>> \/ fail = "Exec"
    THEN [rows |-> db, err |-> IF p = <<>> THEN ErrNilPointer ELSE ErrDatabase,
          p |-> p, inserted |-> FALSE, issued |-> p # <<>>]
    ELSE [rows |-> db \cup {[p[1] EXCEPT !.number = id, !.status = ParcelStatusRegistered]},
          err |-> IF fail = "LastInsertId" THEN ErrDatabase ELSE Nil,
          p |-> IF fail = "LastInsertId" THEN p ELSE <<[p[1] EXCEPT !.number = id]>>,
          inserted |-> TRUE, issued |-> TRUE]

\* p is the *Parcel; id the identifier the backend generates for the row.
\* fail: where the backend fails: "Exec" (the INSERT is not done),
\* "LastInsertId" (the INSERT is done, its identifier cannot be read), "" for
\* no failure.  issued: whether a statement was sent to the backend;
\* inserted: whether the backend inserted a row.
Add(db, id, p, fail) ==
    IF p = <<>>
    THEN [rows |-> db, err |-> ErrNilPointer, p |-> p, inserted |-> FALSE, issued |-> FALSE]
    ELSE IF fail = "Exec"
    THEN [rows |-> db, err |-> ErrDatabase, p |-> p, inserted |-> FALSE, issued |-> TRUE]
    ELSE LET e == Prepared("parcel", {"client", "status", "address", "created_at"}) IN
         IF e # Nil
         THEN [rows |-> db, err |-> e, p |-> p, inserted |-> FALSE, issued |-> TRUE]
         ELSE IF fail = "LastInsertId"
         THEN [rows |-> db \cup {[p[1] EXCEPT !.number = id]}, err |-> ErrDatabase,
               p |-> p, inserted |-> TRUE, issued |-> TRUE]
         ELSE [rows |-> db \cup {[p[1] EXCEPT !.number = id]},
               err |-> Nil,
               p |-> <<[p[1] EXCEPT !.number = id]>>,
               inserted |-> TRUE, issued |-> TRUE]

\* Mutant of Get: the rows are selected by the client column.
GetWhereClient(db, number, fail) ==
    IF fail THEN [parcel |-> ZeroParcel, err |-> ErrDatabase]
    ELSE LET found == {r \in db : Col(r, "client") = number} IN
         IF found = {} THEN [parcel |-> ZeroParcel, err |-> Nil]
         ELSE [parcel |-> CHOOSE r \in found : \A q \in found : r.number <= q.number,
               err |-> Nil]

Get(db, number, fail) ==
    IF fail THEN [parcel |-> ZeroParcel, err |-> ErrDatabase]
    ELSE LET e == Prepared("parcel",
                           {"number", "client", "status", "address", "created_at", "id"})
             found == {r \in db : Col(r, "id") = number}
         IN  IF e # Nil THEN [parcel |-> ZeroParcel, err |-> e]
             ELSE IF found = {} THEN [parcel |-> ZeroParcel, err |-> Nil]
             ELSE [parcel |-> CHOOSE r \in found : \A q \in found : r.number <= q.number,
                   err |-> Nil]

\* The rows of the client, as a set; the backend returns them in some order.
GetByClient(db, client, fail) ==
    IF fail THEN [parcels |-> {}, err |-> ErrDatabase]
    ELSE LET e == Prepared("percel",
                           {"number", "client", "status", "address", "created_at"})
         IN  IF e # Nil THEN [parcels |-> {}, err |-> e]
             ELSE [parcels |-> {r \in db : Col(r, "client") = client}, err |-> Nil]

\* Mutant of SetStatus: the arguments are bound in the wrong order, so no row
\* has the number looked for.
SetStatusArgsSwapped(db, number, status, fail) ==
    [rows |-> db, err |-> IF fail THEN ErrDatabase ELSE Nil]

\* Mutant of SetStatus: the row is replaced (REPLACE INTO parcel (number,
\* status)), so its other columns fall back to their zero values.
SetStatusReplacesRow(db, number, status, fail) ==
    IF fail THEN [rows |-> db, err |-> ErrDatabase]
    ELSE [rows |-> {IF Col(r, "number") = number
                    THEN [ZeroParcel EXCEPT !.number = number, !.status = status]
                    ELSE r : r \in db},
          err |-> Nil]

\* Mutant of SetStatus: the UPDATE has no WHERE clause.
SetStatusAllRows(db, number, status, fail) ==
    IF fail THEN [rows |-> db, err |-> ErrDatabase]
    ELSE [rows |-> {[r EXCEPT !.status = status] : r \in db}, err |-> Nil]

SetStatus(db, number, status, fail) ==
    IF fail THEN [rows |-> db, err |-> ErrDatabase]
    ELSE LET e == Prepared("parcel", {"status", "number"}) IN
         IF e # Nil THEN [rows |-> db, err |-> e]
         ELSE [rows |-> {IF Col(r, "number") = number
                         THEN [r EXCEPT !.status = status] ELSE r : r \in db},
               err |-> Nil]

\* Mutant of SetAddress: the arguments are bound in the wrong order, so no
\* row has the number looked for.
SetAddressArgsSwapped(db, number, address, fail) ==
    [rows |-> db, err |-> IF fail THEN ErrDatabase ELSE Nil]

SetAddress(db, number, address, fail) ==
    IF fail THEN [rows |-> db, err |-> ErrDatabase]
    ELSE LET e == Prepared("parcel", {"address", "number"}) IN
         IF e # Nil THEN [rows |-> db, err |-> e]
         ELSE [rows |-> {IF Col(r, "number") = number
                         THEN [r EXCEPT !.address = address] ELSE r : r \in db},
               err |-> Nil]

\* Mutant of Delete: the statement has no condition on status.
DeleteUnguarded(db, number, fail) ==
    IF fail THEN [rows |-> db, err |-> ErrDatabase]
    ELSE [rows |-> {r \in db : r.number # number}, err |-> Nil]

\* WHERE number = ? AND status = registered: `registered` is not quoted, so
\* it names a column, not the string 'registered'.
Delete(db, number, fail) ==
    IF fail THEN [rows |-> db, err |-> ErrDatabase]
    ELSE LET e == Prepared("parcel", {"number", "status", "registered"}) IN
         IF e # Nil THEN [rows |-> db, err |-> e]
         ELSE [rows |-> {r \in db : ~(Col(r, "number") = number
                                      /\ Col(r, "status") = Col(r, "registered"))},
               err |-> Nil]

\* ---------------------------------------------------------- ParcelService
\* Each method: the table after the call, the error and the values returned,
\* and the calls of ParcelStore methods it made (stmts), each with the number
\* and the status passed and the error it returned.
Stmt(name, number, status, err) ==
    [stmt |-> name, number |-> number, status |-> status, err |-> err]

\* The Parcel that Register builds at time t.
NewParcel(client, address, t) ==
    [number |-> 0, client |-> client, status |-> ParcelStatusRegistered,
     address |-> address, created_at |-> FormatRFC3339(t)]

Register(db, id, client, address, t, fail) ==
    LET a == Add(db, id, <<NewParcel(client, address, t)>>, fail) IN
    [rows |-> a.rows,
     inserted |-> a.inserted,
     err |-> a.err,
     ret |-> IF a.err # Nil THEN <<ZeroParcel>> ELSE a.p,
     stmts |-> <<Stmt("Add", 0, ParcelStatusRegistered, a.err)>>]

\* printed: the parcels in the order the backend returned them.
PrintClientParcels(db, client, printed, fail) ==
    LET g == GetByClient(db, client, fail) IN
    [rows |-> db,
     err |-> g.err,
     ret |-> IF g.err # Nil THEN <<>> ELSE printed,
     stmts |-> <<Stmt("GetByClient", 0, "", g.err)>>]

\* Mutant of the switch of NextStatus: a registered parcel becomes delivered.
NextStatusSwitchSkipsSent(status) ==
    CASE status = ParcelStatusRegistered -> [return |-> FALSE, nextStatus |-> ParcelStatusDelivered]
      [] status = ParcelStatusSent -> [return |-> FALSE, nextStatus |-> ParcelStatusDelivered]
      [] status = ParcelStatusDelivered -> [return |-> TRUE, nextStatus |-> ""]
      [] OTHER -> [return |-> FALSE, nextStatus |-> ""]

\* The switch of NextStatus: whether it returns nil at once, and nextStatus
\* (declared without a value, so the empty string when no case matches).
NextStatusSwitch(status) ==
    CASE status = ParcelStatusRegistered -> [return |-> FALSE, nextStatus |-> ParcelStatusSent]
      [] status = ParcelStatusSent -> [return |-> FALSE, nextStatus |-> ParcelStatusDelivered]
      [] status = ParcelStatusDelivered -> [return |-> TRUE, nextStatus |-> ""]
      [] OTHER -> [return |-> FALSE, nextStatus |-> ""]

\* Mutant of NextStatusGet: the error of Get is noted and not returned.
NextStatusGetIgnoresError(db, number, fail) ==
    LET g == Get(db, number, fail)
        sw == NextStatusSwitch(g.parcel.status)
    IN  [return |-> sw.return, err |-> g.err, nextStatus |-> sw.nextStatus]

\* NextStatus up to its SetStatus: the Get, the error check and the switch.
NextStatusGet(db, number, fail) ==
    LET g == Get(db, number, fail)
        sw == NextStatusSwitch(g.parcel.status)
    IN  IF g.err # Nil THEN [return |-> TRUE, err |-> g.err, nextStatus |-> ""]
        ELSE [return |-> sw.return, err |-> Nil, nextStatus |-> sw.nextStatus]

\* fail: the statement at which the backend fails ("" for none).
NextStatus(db, number, fail) ==
    LET g == NextStatusGet(db, number, fail = "Get")
        s == SetStatus(db, number, g.nextStatus, fail = "SetStatus")
    IN  IF g.return
        THEN [rows |-> db, err |-> g.err, stmts |-> <<Stmt("Get", number, "", g.err)>>]
        ELSE [rows |-> s.rows, err |-> s.err,
              stmts |-> <<Stmt("Get", number, "", g.err),
                          Stmt("SetStatus", number, g.nextStatus, s.err)>>]

ChangeAddress(db, number, address, fail) ==
    LET s == SetAddress(db, number, address, fail) IN
    [rows |-> s.rows, err |-> s.err, stmts |-> <<Stmt("SetAddress", number, "", s.err)>>]

ServiceDelete(db, number, fail) ==
    LET d == Delete(db, number, fail) IN
    [rows |-> d.rows, err |-> d.err, stmts |-> <<Stmt("Delete", number, "", d.err)>>]

\* ------------------------------------------------- one caller at a time
\* The record of a completed Service call.
Call(op, number, client, address, r, ret) ==
    [op |-> op, number |-> number, client |-> client, address |-> address,
     err |-> r.err, ret |-> ret, stmts |-> r.stmts, before |-> rows]

NoCall ==
    [op |-> "", number |-> 0, client |-> 0, address |-> "", err |-> Nil,
     ret |-> <<>>, stmts |-> <<>>, before |-> {}]

Init ==
    /\ rows = {}
    /\ lastInsertId = 0
    /\ last = NoCall
    /\ pc = [p \in Procs |-> "idle"]
    /\ local = [p \in Procs |-> [number |-> 0, nextStatus |-> ""]]
    /\ effects = {}

\* The orders in which a backend may return the rows of a set.
Orders(S) ==
    {o \in [1 .. Cardinality(S) -> S] : \A i, j \in 1 .. Cardinality(S) : o[i] = o[j] => i = j}

CallRegister(client, address, t, fail) ==
    /\ lastInsertId < MaxParcels
    /\ LET r == Register(rows, lastInsertId + 1, client, address, t, fail) IN
       /\ rows' = r.rows
       /\ lastInsertId' = IF r.inserted THEN lastInsertId + 1 ELSE lastInsertId
       /\ last' = Call("Register", 0, client, address, r, r.ret)
    /\ UNCHANGED <<pc, local, effects>>

CallPrintClientParcels(client, fail) ==
    /\ \E printed \in Orders(GetByClient(rows, client, fail).parcels) :
          LET r == PrintClientParcels(rows, client, printed, fail) IN
          last' = Call("PrintClientParcels", 0, client, "", r, r.ret)
    /\ UNCHANGED <<rows, lastInsertId, pc, local, effects>>

CallNextStatus(number, fail) ==
    /\ LET r == NextStatus(rows, number, fail) IN
       /\ rows' = r.rows
       /\ last' = Call("NextStatus", number, 0, "", r, <<>>)
    /\ UNCHANGED <<lastInsertId, pc, local, effects>>

CallChangeAddress(number, address, fail) ==
    /\ LET r == ChangeAddress(rows, number, address, fail) IN
       /\ rows' = r.rows
       /\ last' = Call("ChangeAddress", number, 0, address, r, <<>>)
    /\ UNCHANGED <<lastInsertId, pc, local, effects>>

CallDelete(number, fail) ==
    /\ LET r == ServiceDelete(rows, number, fail) IN
       /\ rows' = r.rows
       /\ last' = Call("Delete", number, 0, "", r, <<>>)
    /\ UNCHANGED <<lastInsertId, pc, local, effects>>

Next ==
    \/ \E c \in Clients, a \in Addresses, t \in Times, f \in {"", "Exec", "LastInsertId"} :
          CallRegister(c, a, t, f)
    \/ \E c \in Clients, f \in BOOLEAN : CallPrintClientParcels(c, f)
    \/ \E n \in Numbers, f \in {"", "Get", "SetStatus"} : CallNextStatus(n, f)
    \/ \E n \in Numbers, a \in Addresses, f \in BOOLEAN : CallChangeAddress(n, a, f)
    \/ \E n \in Numbers, f \in BOOLEAN : CallDelete(n, f)

Spec == Init /\ [][Next]_vars

\* ---------------------------------------------------- concurrent callers
\* Callers run Register, Delete and NextStatus at the same time.  A statement
\* is atomic; NextStatus is two statements, and statements of other callers
\* may run between its Get and its SetStatus.  effects records the SetStatus
\* that updated a row, the Delete that removed one, and the Delete issued for
\* a registered parcel while a NextStatus of the same number was between its
\* two statements.
Effect(stmt, number) == [stmt |-> stmt, number |-> number]

ConcRegister(client, address, t) ==
    /\ lastInsertId < MaxParcels
    /\ LET r == Register(rows, lastInsertId + 1, client, address, t, "") IN
       /\ rows' = r.rows
       /\ lastInsertId' = IF r.inserted THEN lastInsertId + 1 ELSE lastInsertId
    /\ UNCHANGED <<last, pc, local, effects>>

ConcDelete(number) ==
    /\ LET r == ServiceDelete(rows, number, FALSE) IN
       /\ rows' = r.rows
       /\ effects' = effects
              \cup (IF r.rows # rows THEN {Effect("Delete", number)} ELSE {})
              \cup (IF /\ \E q \in rows : q.number = number
                                                /\ q.status = ParcelStatusRegistered
                        /\ \E p \in Procs : pc[p] = "SetStatus" /\ local[p].number = number
                    THEN {Effect("DeleteDuringNextStatus", number)} ELSE {})
    /\ UNCHANGED <<lastInsertId, last, pc, local>>

ConcNextStatusGet(p, number) ==
    /\ pc[p] = "idle"
    /\ LET g == NextStatusGet(rows, number, FALSE) IN
       IF g.return
       THEN UNCHANGED <<pc, local>>
       ELSE /\ pc' = [pc EXCEPT ![p] = "SetStatus"]
            /\ local' = [local EXCEPT ![p] = [number |-> number, nextStatus |-> g.nextStatus]]
    /\ UNCHANGED <<rows, lastInsertId, last, effects>>

ConcNextStatusSet(p) ==
    /\ pc[p] = "SetStatus"
    /\ LET s == SetStatus(rows, local[p].number, local[p].nextStatus, FALSE) IN
       /\ rows' = s.rows
       /\ effects' = effects
              \cup (IF \E q \in rows : q.number = local[p].number
                    THEN {Effect("SetStatus", local[p].number)} ELSE {})
    /\ pc' = [pc EXCEPT ![p] = "idle"]
    /\ local' = [local EXCEPT ![p] = [number |-> 0, nextStatus |-> ""]]
    /\ UNCHANGED <<lastInsertId, last>>

NextConc ==
    \/ \E c \in {1}, a \in {"A"}, t \in {0} : ConcRegister(c, a, t)
    \/ \E n \in Numbers : ConcDelete(n)
    \/ \E p \in Procs, n \in Numbers : ConcNextStatusGet(p, n)
    \/ \E p \in Procs : ConcNextStatusSet(p)

SpecConc == Init /\ [][NextConc]_vars

\* ------------------------------------------- direct calls of ParcelStore
\* A caller that holds the ParcelStore itself, as the tests do, and calls its
\* six methods one at a time with any argument.

\* Mutant of ScanRows: the first row of the cursor is appended twice.
ScanRowsRepeatsFirst(cursor) ==
    IF cursor = <<>> THEN <<>> ELSE <<cursor[1]>> \o cursor

RECURSIVE ScanRows(_)
\* The loop of GetByClient: each row of the cursor is scanned and appended.
ScanRows(cursor) ==
    IF cursor = <<>> THEN <<>> ELSE <<Head(cursor)>> \o ScanRows(Tail(cursor))

\* The parcels a caller passes to Add.
AddArgs ==
    {<<[number |-> n, client |-> c, status |-> st, address |-> "A",
        created_at |-> FormatRFC3339(0)]>> :
        n \in {0, MaxParcels}, c \in Clients, st \in {ParcelStatusRegistered, ParcelStatusSent}}
    \cup {<<>>}

\* The record of a completed ParcelStore call: arg and p are *Parcel of Add
\* before and after the call, ret the parcels returned, fail where the backend
\* failed ("" when it did not).
StoreCall(op, number, client, address, status, arg, p, err, ret, issued, fail) ==
    [op |-> op, number |-> number, client |-> client, address |-> address,
     status |-> status, arg |-> arg, p |-> p, err |-> err, ret |-> ret,
     issued |-> issued, fail |-> fail, before |-> rows]

\* The statement at which a method with one statement fails.
FailAt(stmt, fail) == IF fail THEN stmt ELSE ""

StoreAdd(p, fail) ==
    /\ lastInsertId < MaxParcels
    /\ LET a == Add(rows, lastInsertId + 1, p, fail) IN
       /\ rows' = a.rows
       /\ lastInsertId' = IF a.inserted THEN lastInsertId + 1 ELSE lastInsertId
       /\ last' = StoreCall("Add", 0, 0, "", "", p, a.p, a.err, <<>>, a.issued, fail)
    /\ UNCHANGED <<pc, local, effects>>

StoreGet(number, fail) ==
    /\ LET g == Get(rows, number, fail) IN
       last' = StoreCall("Get", number, 0, "", "", <<>>, <<>>, g.err, <<g.parcel>>, TRUE,
                         FailAt("QueryRow", fail))
    /\ UNCHANGED <<rows, lastInsertId, pc, local, effects>>

StoreGetByClient(client, fail) ==
    /\ LET g == GetByClient(rows, client, fail) IN
       \E cursor \in Orders(g.parcels) :
          last' = StoreCall("GetByClient", 0, client, "", "", <<>>, <<>>, g.err,
                            ScanRows(cursor), TRUE, FailAt("Query", fail))
    /\ UNCHANGED <<rows, lastInsertId, pc, local, effects>>

StoreSetStatus(number, status, fail) ==
    /\ LET s == SetStatus(rows, number, status, fail) IN
       /\ rows' = s.rows
       /\ last' = StoreCall("SetStatus", number, 0, "", status, <<>>, <<>>, s.err, <<>>, TRUE,
                         FailAt("Exec", fail))
    /\ UNCHANGED <<lastInsertId, pc, local, effects>>

StoreSetAddress(number, address, fail) ==
    /\ LET s == SetAddress(rows, number, address, fail) IN
       /\ rows' = s.rows
       /\ last' = StoreCall("SetAddress", number, 0, address, "", <<>>, <<>>, s.err, <<>>, TRUE,
                         FailAt("Exec", fail))
    /\ UNCHANGED <<lastInsertId, pc, local, effects>>

StoreDelete(number, fail) ==
    /\ LET d == Delete(rows, number, fail) IN
       /\ rows' = d.rows
       /\ last' = StoreCall("Delete", number, 0, "", "", <<>>, <<>>, d.err, <<>>, TRUE,
                         FailAt("Exec", fail))
    /\ UNCHANGED <<lastInsertId, pc, local, effects>>

NextStore ==
    \/ \E p \in AddArgs, f \in {"", "Exec", "LastInsertId"} : StoreAdd(p, f)
    \/ \E n \in Numbers, f \in BOOLEAN : StoreGet(n, f)
    \/ \E c \in Clients, f \in BOOLEAN : StoreGetByClient(c, f)
    \/ \E n \in Numbers, f \in BOOLEAN :
          \E st \in {ParcelStatusRegistered, ParcelStatusSent, ParcelStatusDelivered} :
             StoreSetStatus(n, st, f)
    \/ \E n \in Numbers, a \in Addresses, f \in BOOLEAN : StoreSetAddress(n, a, f)
    \/ \E n \in Numbers, f \in BOOLEAN : StoreDelete(n, f)

SpecStore == Init /\ [][NextStore]_vars

\* =================================================================== claims
\* The row of table db with the given number, as a set (empty when absent).
Stored(db, number) == {r \in db : r.number = number}

\* The last call reached the backend and the backend itself did not fail.
BackendUp == last.err # ErrDatabase

\* ----------------------------------------------------------------------- C1
\* One step of the lifecycle: no change, registered -> sent, sent -> delivered.
StatusStep(from, to) ==
    \/ to = from
    \/ from = ParcelStatusRegistered /\ to = ParcelStatusSent
    \/ from = ParcelStatusSent /\ to = ParcelStatusDelivered

\* C1: with Service calls executed one at a time, every step of the program
\* changes the status of a stored parcel only from registered to sent or from
\* sent to delivered; a delivered parcel keeps its status.
C1_StatusOnlyStepsForward ==
    [][\A r \in rows : \A q \in Stored(rows', r.number) : StatusStep(r.status, q.status)]_vars

\* NextStatus has taken a parcel from sent to delivered.
C1_Witness ==
    /\ last.op = "NextStatus"
    /\ \E r \in Stored(last.before, last.number) :
          /\ r.status = ParcelStatusSent
          /\ [r EXCEPT !.status = ParcelStatusDelivered] \in rows

\* ----------------------------------------------------------------------- C2
\* C2: ChangeAddress on a parcel whose status is sent or delivered returns no
\* error and leaves the parcel's row as it was.
C2_AddressFrozenOnceSent ==
    (last.op = "ChangeAddress" /\ BackendUp)
        => \A r \in Stored(last.before, last.number) :
              r.status \in {ParcelStatusSent, ParcelStatusDelivered}
                  => last.err = Nil /\ r \in rows

\* ----------------------------------------------------------------------- C3
\* C3: Delete on a parcel whose status is sent or delivered returns no error
\* and leaves the parcel stored with all its fields, so that Get and
\* GetByClient still return it.
C3_DeleteKeepsSentParcel ==
    (last.op = "Delete" /\ BackendUp)
        => \A r \in Stored(last.before, last.number) :
              r.status \in {ParcelStatusSent, ParcelStatusDelivered}
                  => /\ last.err = Nil
                     /\ r \in rows
                     /\ Get(rows, r.number, FALSE).parcel = r
                     /\ r \in GetByClient(rows, r.client, FALSE).parcels

\* ----------------------------------------------------------------------- C4
\* C4: Delete on a registered parcel returns no error and removes that parcel
\* and no other: Get of its number then returns the zero Parcel and no error,
\* and GetByClient of its client does not hold it.
C4_DeleteRemovesRegistered ==
    (last.op = "Delete" /\ BackendUp)
        => \A r \in Stored(last.before, last.number) :
              r.status = ParcelStatusRegistered
                  => /\ last.err = Nil
                     /\ rows = last.before \ {r}
                     /\ Get(rows, r.number, FALSE) = [parcel |-> ZeroParcel, err |-> Nil]
                     /\ r \notin GetByClient(rows, r.client, FALSE).parcels

\* ----------------------------------------------------------------------- C5
\* The status the lifecycle gives after one NextStatus.
Advanced(status) ==
    IF status = ParcelStatusRegistered THEN ParcelStatusSent ELSE ParcelStatusDelivered

\* C5: NextStatus on a stored parcel returns no error and leaves a registered
\* parcel sent, a sent parcel delivered and a delivered parcel delivered; so
\* three calls in a row take a registered parcel to sent, delivered, delivered.
C5_NextStatusAdvances ==
    (last.op = "NextStatus" /\ BackendUp)
        => \A r \in Stored(last.before, last.number) :
              r.status \in {ParcelStatusRegistered, ParcelStatusSent, ParcelStatusDelivered}
                  => /\ last.err = Nil
                     /\ Stored(rows, r.number) = {[r EXCEPT !.status = Advanced(r.status)]}

\* The third call: NextStatus on a delivered parcel has left it delivered.
C5_Witness ==
    /\ last.op = "NextStatus"
    /\ last.err = Nil
    /\ \E r \in Stored(last.before, last.number) :
          r.status = ParcelStatusDelivered /\ r \in rows

\* ----------------------------------------------------------------------- C6
\* C6: ChangeAddress on a registered parcel returns no error and sets that
\* parcel's address to the one given; its number, client, status and
\* created_at stay as they were.
C6_ChangeAddressOfRegistered ==
    (last.op = "ChangeAddress" /\ BackendUp)
        => \A r \in Stored(last.before, last.number) :
              r.status = ParcelStatusRegistered
                  => /\ last.err = Nil
                     /\ Stored(rows, r.number) = {[r EXCEPT !.address = last.address]}

\* ChangeAddress has given a registered parcel another address.
C6_Witness ==
    /\ last.op = "ChangeAddress"
    /\ last.err = Nil
    /\ \E r \in Stored(last.before, last.number) :
          /\ r.status = ParcelStatusRegistered
          /\ r.address # last.address
          /\ [r EXCEPT !.address = last.address] \in rows

\* ----------------------------------------------------------------------- C9
\* C9: a Register whose insert succeeds returns a Parcel with the client and
\* the address given, status registered, and a number that no parcel stored
\* before the call has; the store then holds a row with the returned fields.
C9_RegisterReturnsStoredParcel ==
    (last.op = "Register" /\ last.err = Nil)
        => /\ Len(last.ret) = 1
           /\ last.ret[1].client = last.client
           /\ last.ret[1].address = last.address
           /\ last.ret[1].status = ParcelStatusRegistered
           /\ Stored(last.before, last.ret[1].number) = {}
           /\ Stored(rows, last.ret[1].number) = {last.ret[1]}

\* A second parcel has been registered.
C9_Witness ==
    /\ last.op = "Register"
    /\ last.err = Nil
    /\ last.before # {}
    /\ last.ret[1] \in rows \ last.before

\* ---------------------------------------------------------------------- C10
\* C10: no two stored parcels have the same number, and in every step a
\* number that stays stored keeps its client and its created_at.
C10_NumberUniqueAndStable ==
    /\ [](\A r, q \in rows : r.number = q.number => r = q)
    /\ [][\A r \in rows : \A q \in Stored(rows', r.number) :
              q.client = r.client /\ q.created_at = r.created_at]_vars

\* Two parcels are stored that differ in nothing but their number, after a
\* call that changed the older one.
C10_Witness ==
    /\ last.op \in {"NextStatus", "ChangeAddress"}
    /\ rows # last.before
    /\ \E r, q \in rows : r.number # q.number /\ [r EXCEPT !.number = q.number] = q

\* ----------------------------------------------------------------------- C7
\* C7: with NextStatus(N) and Delete(N) running at the same time, it never
\* happens that both the SetStatus of NextStatus updated the row of N and
\* Delete removed the row of N.
C7_NotBothSetStatusAndDelete ==
    \A n \in Numbers :
        ~(Effect("SetStatus", n) \in effects /\ Effect("Delete", n) \in effects)

\* Delete(N) ran for a registered parcel N between the Get and the SetStatus
\* of a NextStatus(N), every NextStatus has returned, and N is stored.
C7_Witness ==
    \E n \in Numbers :
        /\ Effect("DeleteDuringNextStatus", n) \in effects
        /\ Effect("SetStatus", n) \in effects
        /\ \A p \in Procs : pc[p] = "idle"
        /\ Stored(rows, n) # {}

\* ----------------------------------------------------------------------- C8
\* C8: with several NextStatus(N) running at the same time, no step takes
\* the stored status of N from delivered to sent or from sent to registered.
C8_ConcurrentStatusNeverBack ==
    [][\A r \in rows : \A q \in Stored(rows', r.number) :
          /\ ~(r.status = ParcelStatusDelivered /\ q.status = ParcelStatusSent)
          /\ ~(r.status = ParcelStatusSent /\ q.status = ParcelStatusRegistered)]_vars

\* ---------------------------------------------------------------------- C11
\* C11: Get(number) never changes the table; when the backend fails it
\* returns the zero Parcel and an error; otherwise it returns no error, and
\* the fields of the stored parcel of that number, or the zero Parcel when
\* no parcel of that number is stored.
C11_GetReturnsStoredOrZero ==
    last.op = "Get" =>
        /\ rows = last.before
        /\ last.fail # "" => last.err # Nil /\ last.ret = <<ZeroParcel>>
        /\ last.fail = "" =>
              /\ last.err = Nil
              /\ Stored(last.before, last.number) # {}
                    => last.ret[1] \in Stored(last.before, last.number)
              /\ Stored(last.before, last.number) = {} => last.ret = <<ZeroParcel>>

C11_Witness ==
    /\ last.op = "Get" /\ last.err = Nil
    /\ last.ret # <<ZeroParcel>>
    /\ last.ret[1].number = last.number
    /\ last.ret[1].status = ParcelStatusSent
    /\ Cardinality(last.before) > 1

InsertedOne(before, after, q) ==
    \E r \in after \ before :
        /\ after = before \cup {r}
        /\ \A b \in before : b.number # r.number
        /\ r.client = q.client /\ r.status = q.status
        /\ r.address = q.address /\ r.created_at = q.created_at

\* C13 as claimed: Add(p), p not nil: with no backend failure it returns no
\* error, inserts one row with p's client, status, address and created_at and
\* writes the row's identifier to p.Number, p's other fields unchanged; on a
\* backend failure it returns the error, adds no row and leaves p unchanged.
C13_AddFailureAddsNoRow ==
    last.op = "Add" /\ last.arg # <<>> =>
        /\ last.fail = "" =>
              /\ last.err = Nil
              /\ InsertedOne(last.before, rows, last.arg[1])
              /\ [last.p[1] EXCEPT !.number = 0] = [last.arg[1] EXCEPT !.number = 0]
              /\ \E r \in rows \ last.before : last.p[1].number = r.number
        /\ last.fail # "" =>
              /\ last.err = ErrDatabase
              /\ rows = last.before
              /\ last.p = last.arg

\* C13 as amended: as claimed, except that a backend failure after the INSERT
\* (the identifier of the new row cannot be read) returns the error and
\* leaves p unchanged, while the row has been inserted.
C13_AddFailureAfterInsertKeepsRow ==
    last.op = "Add" /\ last.arg # <<>> =>
        /\ last.fail = "" =>
              /\ last.err = Nil
              /\ InsertedOne(last.before, rows, last.arg[1])
              /\ [last.p[1] EXCEPT !.number = 0] = [last.arg[1] EXCEPT !.number = 0]
              /\ \E r \in rows \ last.before : last.p[1].number = r.number
        /\ last.fail = "Exec" =>
              /\ last.err = ErrDatabase
              /\ rows = last.before
              /\ last.p = last.arg
        /\ last.fail = "LastInsertId" =>
              /\ last.err = ErrDatabase
              /\ InsertedOne(last.before, rows, last.arg[1])
              /\ last.p = last.arg

C13_Witness ==
    /\ last.op = "Add" /\ last.arg # <<>>
    /\ last.fail = "LastInsertId"
    /\ last.before # {}
    /\ rows # last.before
    /\ last.arg[1].status = ParcelStatusSent

\* ---------------------------------------------------------------------- C14
\* C14: Add(nil) returns the error "gotten pointer is equal to nil", sends no
\* statement to the backend and leaves the table unchanged, whether or not
\* the backend would have failed.
C14_AddNilIsRejected ==
    last.op = "Add" /\ last.arg = <<>> =>
        /\ last.err = "gotten pointer is equal to nil"
        /\ ~last.issued
        /\ rows = last.before
        /\ last.p = <<>>

C14_Witness ==
    /\ last.op = "Add" /\ last.arg = <<>>
    /\ last.fail = ""
    /\ last.before # {}

\* ---------------------------------------------------------------------- C15
\* C15: SetStatus, SetAddress and Delete called with a number no stored
\* parcel has, the backend not failing, return no error and leave the table
\* unchanged.
C15_UnknownNumberIsNoOp ==
    /\ last.op \in {"SetStatus", "SetAddress", "Delete"}
    /\ Stored(last.before, last.number) = {}
    /\ last.fail = ""
    => /\ last.err = Nil
       /\ rows = last.before

\* ---------------------------------------------------------------------- C16
\* C16: when a ParcelStore call made by a Service method returns an error,
\* that call is the last one the method makes (no further call, no retry),
\* the method returns that same error, and the rows the table held before the
\* method was called are still in it.
C16_StoreErrorEndsTheCall ==
    last.op \in {"Register", "PrintClientParcels", "NextStatus", "ChangeAddress", "Delete"} =>
        \A i \in 1 .. Len(last.stmts) :
            last.stmts[i].err # Nil =>
                /\ i = Len(last.stmts)
                /\ last.err = last.stmts[i].err
                /\ last.before \subseteq rows

C16_Witness ==
    /\ last.op = "NextStatus"
    /\ Len(last.stmts) = 2
    /\ last.stmts[2].err = ErrDatabase
    /\ \E r \in rows : r.number = last.number /\ r.status = ParcelStatusSent

\* ---------------------------------------------------------------------- C17
\* The fields of a parcel that are set at its creation for good.
Identity(r) == <<r.number, r.client, r.created_at>>

\* C17: no call of a ParcelStore method changes the number, the client or the
\* created_at of a stored parcel: every row stored before a step and still
\* stored after it (under its number) has the same three values.
C17_IdentityFieldsNeverChange ==
    [][\A r \in rows :
          (\E q \in rows' : q.number = r.number)
              => \A q \in rows' : q.number = r.number => Identity(q) = Identity(r)]_vars

C17_Witness ==
    /\ last.op \in {"SetStatus", "SetAddress"}
    /\ rows # last.before
    /\ \E r \in rows, b \in last.before :
          /\ r.number = last.number /\ b.number = last.number
          /\ Identity(r) = Identity(b)
          /\ r.client = 2

\* ---------------------------------------------------------------------- C18
\* C18: with Service calls executed one at a time and the backend not
\* failing, NextStatus(number) for a number no stored parcel has returns no
\* error and leaves the whole table unchanged.
C18_NextStatusOfAbsentIsNoOp ==
    /\ last.op = "NextStatus"
    /\ Stored(last.before, last.number) = {}
    /\ BackendUp
    => /\ last.err = Nil
       /\ rows = last.before

C18_Witness ==
    /\ last.op = "NextStatus"
    /\ Stored(last.before, last.number) = {}
    /\ last.err = Nil
    /\ last.before # {}

\* ---------------------------------------------------------------------- C19
\* C19: when the Add of Register fails, Register returns the error and the
\* Parcel it built: the client and the address given, the status registered,
\* the creation timestamp, and the number 0.
C19_RegisterReturnsBuiltParcelOnError ==
    last.op = "Register" /\ last.err # Nil =>
        /\ last.ret[1].number = 0
        /\ last.ret[1].client = last.client
        /\ last.ret[1].address = last.address
        /\ last.ret[1].status = ParcelStatusRegistered
        /\ last.ret[1].created_at # ZeroParcel.created_at

\* ---------------------------------------------------------------------- C20
\* C20: every NextStatus makes one Get and no other call, or one Get followed
\* by one SetStatus that carries the status sent or delivered; the SetStatus
\* is made only when the parcel read has the status registered or sent, so
\* not when it is delivered or when no parcel of that number is stored.
C20_WriteOnlyWhenTransitionComputed ==
    last.op = "NextStatus" =>
        /\ Len(last.stmts) \in {1, 2}
        /\ last.stmts[1].stmt = "Get"
        /\ Len(last.stmts) = 2 =>
              /\ last.stmts[2].stmt = "SetStatus"
              /\ last.stmts[2].status \in {ParcelStatusSent, ParcelStatusDelivered}
              /\ \E r \in Stored(last.before, last.number) :
                    r.status \in {ParcelStatusRegistered, ParcelStatusSent}

\* ---------------------------------------------------------------------- C21
\* C21: in every reachable state, other callers' Register, NextStatus and
\* Delete running between the Get and the SetStatus of a NextStatus included,
\* the status of every stored parcel is registered, sent or delivered.
C21_StatusAlwaysOneOfThree ==
    \A r \in rows :
        r.status \in {ParcelStatusRegistered, ParcelStatusSent, ParcelStatusDelivered}

====
